---- MODULE Spec2Model ----
\* PiWeatherRock, piweatherrock/weather.py: the forecast cache of class Weather
\* (get_forecast) and the facts it derives from a fetched forecast.
\*
\* Time is counted in whole ticks; a calendar day has DayLen ticks.  A
\* precipitation probability is counted in hundredths (0.25 is 25).
EXTENDS Integers, Sequences, FiniteSets, TLC

\* ---------------------------------------------------------------- bounds
MaxFreq == 2        \* config["update_freq"] ranges over 1..MaxFreq
MaxTime == 7        \* the clock stops at MaxTime
DayLen == 4         \* ticks per calendar day
MaxHourly == 2      \* longest hourly sequence of a dry, well-formed forecast
MaxLatency == 1     \* longest duration of one forecast() round trip
HalfPoint == 4      \* bearing units in 11.25 degrees, half a compass point
MaxWindSpeed == 5   \* fastest wind, in halves of a speed unit

\* rain_chance >= .25, in hundredths
PrecipThreshold == 25

VARIABLES
    now,                \* time.time() / datetime.datetime.now()
    update_freq,        \* self.config["update_freq"]
    last_update_check,  \* self.last_update_check
    attrs,              \* the instance attributes among Facts that exist
    weather,            \* self.weather
    sunrise,            \* self.sunrise
    sunrise_string,     \* self.sunrise_string
    sunset,             \* self.sunset
    sunset_string,      \* self.sunset_string
    take_umbrella,      \* self.take_umbrella
    result,             \* what the last call of get_forecast returned
    outcome,            \* which path the last call of get_forecast took
    callTime,           \* when the last call of get_forecast was made
    evalTime,           \* when the forecast in self.weather was evaluated
    scanned,            \* hourly entries the last call examined
    succeeded,          \* some fetch has run to the end of the try block
    shown               \* the last call of a display helper and what it gave

vars == <<now, update_freq, last_update_check, attrs, weather, sunrise,
          sunrise_string, sunset, sunset_string, take_umbrella, result,
          outcome, callTime, evalTime, scanned, succeeded, shown>>

\* ------------------------------------------------------- dates and times
\* datetime.datetime.fromtimestamp: a naive local date and time of day.
fromtimestamp(t) == [date |-> t \div DayLen, clock |-> t % DayLen]

\* a < b on datetime objects
DtLess(a, b) == a.date < b.date \/ (a.date = b.date /\ a.clock < b.clock)

\* a <= b on datetime objects
DtLeq(a, b) == a = b \/ DtLess(a, b)

\* strftime("%I:%M %p {}").format(suffix): the time of day, then the suffix
strftime(dt, suffix) == [clock |-> dt.clock, suffix |-> suffix]

\* the value of sunrise_string / sunset_string before it is first assigned
NoString == [clock |-> -1, suffix |-> ""]

\* --------------------------------------------------------- the forecast
\* An object of the forecast: has is the set of attributes it carries.
HasAttr(obj, a) == a \in obj.has

Without(obj, a) == [obj EXCEPT !.has = @ \ {a}]

Entry(sr, ss, ic) ==
    [has |-> {"sunriseTime", "sunsetTime", "icon"},
     sunriseTime |-> sr, sunsetTime |-> ss, icon |-> ic]

Hour(t, p) ==
    [has |-> {"time", "precipProbability"}, time |-> t, precipProbability |-> p]

Forecast(ic, ds, hs) ==
    [has |-> {"icon", "daily", "hourly"}, icon |-> ic, daily |-> ds, hourly |-> hs]

\* self.weather before the first assignment
NoWeather == [has |-> {}, icon |-> "", daily |-> <<>>, hourly |-> <<>>]

\* ------------------------------------------ get_forecast: the try block
\* The instance attributes the try block assigns, as one record.
Self ==
    [attrs |-> attrs, weather |-> weather, sunrise |-> sunrise,
     sunrise_string |-> sunrise_string, sunset |-> sunset,
     sunset_string |-> sunset_string, take_umbrella |-> take_umbrella]

\* The instance right after __init__: none of these attributes exists.
NewSelf ==
    [attrs |-> {}, weather |-> NoWeather, sunrise |-> -1,
     sunrise_string |-> NoString, sunset |-> -1,
     sunset_string |-> NoString, take_umbrella |-> FALSE]

\* Mutant of FetchDue: any later clock value is enough for a new attempt.
FetchDueNoInterval(t, last, freq) == (t - last) > 0

\* (time.time() - self.last_update_check) > self.config["update_freq"]
FetchDue(t, last, freq) == (t - last) > freq

\* Mutant of StampAttempt: the attempt is never stamped.
StampNever(t, last) == last

\* self.last_update_check = time.time()
StampAttempt(t, last) == t

\* Mutant of SelectIndex: today is kept up to and including sunset.
SelectIndexLate(tnow, sunset_today) == IF DtLeq(tnow, sunset_today) THEN 0 ELSE 1

\* if datetime.datetime.now() < sunset_today: index = 0 else: index = 1
SelectIndex(tnow, sunset_today) == IF DtLess(tnow, sunset_today) THEN 0 ELSE 1

SunriseSuffix(index) == IF index = 0 THEN "today" ELSE "tomorrow"

SunsetSuffix(index) == IF index = 0 THEN "tonight" ELSE "tomorrow"

\* Mutant of IconSaysRain: both icons must say rain.
IconSaysRainBoth(icon_now, icon_today) == icon_now = "rain" /\ icon_today = "rain"

\* if icon_now == 'rain' or icon_today == 'rain'
IconSaysRain(icon_now, icon_today) == icon_now = "rain" \/ icon_today = "rain"

\* Mutant of HourNeedsUmbrella: the threshold itself does not count.
HourNeedsUmbrellaStrict(hr, sr, ss, curr_date, rain_chance) ==
    /\ hr.date = curr_date
    /\ DtLeq(sr, hr) /\ DtLeq(hr, ss)
    /\ rain_chance > PrecipThreshold

\* if is_today and is_daylight_hr and rain_chance >= .25
HourNeedsUmbrella(hr, sr, ss, curr_date, rain_chance) ==
    LET is_today == hr.date = curr_date
        is_daylight_hr == DtLeq(sr, hr) /\ DtLeq(hr, ss)
    IN  is_today /\ is_daylight_hr /\ rain_chance >= PrecipThreshold

\* for hour in self.weather.hourly: ... break
\* Gives the exception raised (if any), the flag and the entries examined.
RECURSIVE ScanHourly(_, _, _)
ScanHourly(w, i, curr_date) ==
    IF i > Len(w.hourly)
    THEN [exc |-> "none", umbrella |-> FALSE, scanned |-> i - 1]
    ELSE LET hour == w.hourly[i]
             today == w.daily[1]
         IN  IF \/ ~HasAttr(hour, "time")
                \/ ~HasAttr(today, "sunriseTime")
                \/ ~HasAttr(today, "sunsetTime")
                \/ ~HasAttr(hour, "precipProbability")
             THEN [exc |-> "AttributeError", umbrella |-> FALSE, scanned |-> i]
             ELSE IF HourNeedsUmbrella(fromtimestamp(hour.time),
                                       fromtimestamp(today.sunriseTime),
                                       fromtimestamp(today.sunsetTime),
                                       curr_date, hour.precipProbability)
                  THEN [exc |-> "none", umbrella |-> TRUE, scanned |-> i]
                  ELSE ScanHourly(w, i + 1, curr_date)

\* Where the try block stops: the attributes as assigned so far, the
\* exception that ended it ("none" at its end).
Stop(s, e, n) == [self |-> s, exc |-> e, scanned |-> n]

\* The try block once forecast() has returned w, read at time t.
TryBlock(s0, w, t) ==
    LET s1 == [s0 EXCEPT !.weather = w, !.attrs = @ \cup {"weather"}]
    IN
    IF ~HasAttr(w, "daily") THEN Stop(s1, "AttributeError", 0)
    ELSE IF Len(w.daily) < 1 THEN Stop(s1, "IndexError", 0)
    ELSE IF ~HasAttr(w.daily[1], "sunsetTime") THEN Stop(s1, "AttributeError", 0)
    ELSE
    LET index == SelectIndex(fromtimestamp(t),
                             fromtimestamp(w.daily[1].sunsetTime))
    IN
    IF Len(w.daily) < index + 1 THEN Stop(s1, "IndexError", 0)
    ELSE
    LET day == w.daily[index + 1] IN
    IF ~HasAttr(day, "sunriseTime") THEN Stop(s1, "AttributeError", 0)
    ELSE
    LET s2 == [s1 EXCEPT
                 !.sunrise = day.sunriseTime,
                 !.sunrise_string = strftime(fromtimestamp(day.sunriseTime),
                                             SunriseSuffix(index)),
                 !.attrs = @ \cup {"sunrise", "sunrise_string"}]
    IN
    IF ~HasAttr(day, "sunsetTime") THEN Stop(s2, "AttributeError", 0)
    ELSE
    LET s3 == [s2 EXCEPT
                 !.sunset = day.sunsetTime,
                 !.sunset_string = strftime(fromtimestamp(day.sunsetTime),
                                            SunsetSuffix(index)),
                 !.take_umbrella = FALSE,
                 !.attrs = @ \cup {"sunset", "sunset_string", "take_umbrella"}]
    IN
    IF ~HasAttr(w, "icon") THEN Stop(s3, "AttributeError", 0)
    ELSE IF ~HasAttr(w.daily[1], "icon") THEN Stop(s3, "AttributeError", 0)
    ELSE IF IconSaysRain(w.icon, w.daily[1].icon)
         THEN Stop([s3 EXCEPT !.take_umbrella = TRUE], "none", 0)
    ELSE IF ~HasAttr(w, "hourly") THEN Stop(s3, "AttributeError", 0)
    ELSE
    LET scan == ScanHourly(w, 1, fromtimestamp(t).date)
    IN  Stop([s3 EXCEPT !.take_umbrella = scan.umbrella], scan.exc, scan.scanned)

\* Mutant of Returned: a RequestException is reported as success.
ReturnedHidesUnreachable(exc) ==
    CASE exc = "none" -> "True"
      [] exc = "RequestException" -> "True"
      [] exc = "AttributeError" -> "False"
      [] OTHER -> exc

\* What get_forecast gives its caller when the try block ends with exc:
\* the two except clauses return False, any other exception leaves the method.
Returned(exc) ==
    CASE exc = "none" -> "True"
      [] exc = "RequestException" -> "False"
      [] exc = "AttributeError" -> "False"
      [] OTHER -> exc

\* ------------------------------------------------ what forecast() returns
\* The forecasts the provider answers with.  Daily entry 0 lies in the day
\* that starts at DayLen, daily entry 1 in the day after it.
Sunrise0 == DayLen + 1

Sunset0 == DayLen + 2

Sunrise1 == 2 * DayLen + 1

Sunset1 == 2 * DayLen + 2

Today(ic) == Entry(Sunrise0, Sunset0, ic)

Tomorrow == Entry(Sunrise1, Sunset1, "clear-day")

SeqsUpTo(S, n) == UNION {[1..k -> S] : k \in 0..n}

\* Hourly entries at both ends of the daylight window, just outside it, and
\* at and just under the threshold.
DryHours ==
    {Hour(Sunrise0, PrecipThreshold), Hour(Sunset0, PrecipThreshold),
     Hour(Sunrise0, PrecipThreshold - 1),
     Hour(Sunrise0 - 1, PrecipThreshold), Hour(Sunset0 + 1, PrecipThreshold)}

\* Well-formed forecasts without a rain icon.
DryFeed ==
    {Forecast("clear-day", <<Today("clear-day"), Tomorrow>>, hs) :
        hs \in SeqsUpTo(DryHours, MaxHourly)}

\* Well-formed forecasts with a rain icon, and ones whose hourly part is
\* broken behind a rain icon.
RainFeed ==
    LET icons == {<<"rain", "clear-day">>, <<"clear-day", "rain">>, <<"rain", "rain">>}
        hours == {<<>>, <<Hour(Sunrise0, 0), Hour(Sunset0, 0)>>,
                  <<Hour(Sunrise0, PrecipThreshold)>>,
                  <<Without(Hour(Sunrise0, 0), "time")>>}
    IN  {Forecast(ic[1], <<Today(ic[2]), Tomorrow>>, hs) : ic \in icons, hs \in hours}
        \cup {Without(Forecast("rain", <<Today("rain"), Tomorrow>>, <<>>), "hourly")}

\* Forecasts that lack an attribute or a daily entry the try block reads.
BrokenFeed ==
    LET ok == <<Hour(Sunrise0, PrecipThreshold)>>
        F(ds) == Forecast("clear-day", ds, ok)
    IN  {Without(F(<<Today("clear-day"), Tomorrow>>), "daily"),
         Without(F(<<Today("clear-day"), Tomorrow>>), "icon"),
         Without(F(<<Today("clear-day"), Tomorrow>>), "hourly"),
         F(<<>>),
         F(<<Today("clear-day")>>),
         F(<<Without(Today("clear-day"), "sunsetTime"), Tomorrow>>),
         F(<<Without(Today("clear-day"), "sunriseTime"), Tomorrow>>),
         F(<<Without(Today("clear-day"), "icon"), Tomorrow>>),
         F(<<Today("clear-day"), Without(Tomorrow, "sunriseTime")>>),
         F(<<Today("clear-day"), Without(Tomorrow, "sunsetTime")>>),
         Forecast("clear-day", <<Today("clear-day"), Tomorrow>>,
                  <<Hour(Sunset0 + 1, 0), Without(Hour(Sunrise0, 0), "time")>>),
         Forecast("clear-day", <<Today("clear-day"), Tomorrow>>,
                  <<Without(Hour(Sunrise0, PrecipThreshold), "precipProbability")>>)}

Feed == DryFeed \cup RainFeed \cup BrokenFeed

\* -------------------------------------------------------- display helpers
\* A str is the sequence of its characters.  Bearings are counted in
\* 1/HalfPoint of 11.25 degrees, so 22.5 degrees are 2 * HalfPoint units.

\* No display helper has been called.
NothingShown == [op |-> "none"]

\* The display helpers read their arguments and assign no attribute, so what
\* one call gives does not depend on the calls before it: each call is made
\* on the new instance.
OnNewInstance ==
    /\ shown = NothingShown
    /\ UNCHANGED <<now, update_freq, last_update_check, attrs, weather, sunrise,
                   sunrise_string, sunset, sunset_string, take_umbrella, result,
                   outcome, callTime, evalTime, scanned, succeeded>>

\* dirs of deg_to_compass
dirs ==
    << <<"N">>, <<"N", "N", "E">>, <<"N", "E">>, <<"E", "N", "E">>,
       <<"E">>, <<"E", "S", "E">>, <<"S", "E">>, <<"S", "S", "E">>,
       <<"S">>, <<"S", "S", "W">>, <<"S", "W">>, <<"W", "S", "W">>,
       <<"W">>, <<"W", "N", "W">>, <<"N", "W">>, <<"N", "N", "W">> >>

\* Mutant of deg_to_compass: the .5 is left out, the quotient is cut off.
deg_to_compass_cut(degrees) ==
    LET val == degrees \div (2 * HalfPoint)
    IN  dirs[(val % Len(dirs)) + 1]

\* val = int((degrees/22.5)+.5); return dirs[(val % 16)]
deg_to_compass(degrees) ==
    LET val == (degrees + HalfPoint) \div (2 * HalfPoint)
    IN  dirs[(val % Len(dirs)) + 1]

\* The bearings of [0, 360).
Bearings == 0..(2 * HalfPoint * Len(dirs) - 1)

\* A call of deg_to_compass.
CallDegToCompass ==
    /\ OnNewInstance
    /\ \E d \in Bearings :
           shown' = [op |-> "deg_to_compass", degrees |-> d, out |-> deg_to_compass(d)]

\* The unit names of units_decoder, character by character.
P_Centimeters ==
    <<"C", "e", "n", "t", "i", "m", "e", "t", "e", "r", "s">>

P_Degrees_Celsius ==
    <<"D", "e", "g", "r", "e", "e", "s", " ", "C", "e", "l", "s", "i", "u", "s">>

P_Degrees_Fahrenheit ==
    <<"D", "e", "g", "r", "e", "e", "s", " ", "F", "a", "h", "r", "e", "n", "h", "e", "i", "t">>

P_Hectopascals ==
    <<"H", "e", "c", "t", "o", "p", "a", "s", "c", "a", "l", "s">>

P_Inches ==
    <<"I", "n", "c", "h", "e", "s">>

P_Inches_per_hour ==
    <<"I", "n", "c", "h", "e", "s", " ", "p", "e", "r", " ", "h", "o", "u", "r">>

P_Kilometers ==
    <<"K", "i", "l", "o", "m", "e", "t", "e", "r", "s">>

P_Kilometers_per_hour ==
    <<"K", "i", "l", "o", "m", "e", "t", "e", "r", "s", " ", "p", "e", "r", " ", "h", "o", "u", "r">>

P_Meters_per_second ==
    <<"M", "e", "t", "e", "r", "s", " ", "p", "e", "r", " ", "s", "e", "c", "o", "n", "d">>

P_Miles ==
    <<"M", "i", "l", "e", "s">>

P_Miles_per_hour ==
    <<"M", "i", "l", "e", "s", " ", "p", "e", "r", " ", "h", "o", "u", "r">>

P_Millibars ==
    <<"M", "i", "l", "l", "i", "b", "a", "r", "s">>

P_Millimeters_per_hour ==
    <<"M", "i", "l", "l", "i", "m", "e", "t", "e", "r", "s", " ", "p", "e", "r", " ", "h", "o", "u", "r">>

\* si_dict of units_decoder
si_dict ==
    [nearestStormDistance |-> P_Kilometers,
     precipIntensity |-> P_Millimeters_per_hour,
     precipIntensityMax |-> P_Millimeters_per_hour,
     precipAccumulation |-> P_Centimeters,
     temperature |-> P_Degrees_Celsius,
     temperatureMin |-> P_Degrees_Celsius,
     temperatureMax |-> P_Degrees_Celsius,
     apparentTemperature |-> P_Degrees_Celsius,
     dewPoint |-> P_Degrees_Celsius,
     windSpeed |-> P_Meters_per_second,
     windGust |-> P_Meters_per_second,
     pressure |-> P_Hectopascals,
     visibility |-> P_Kilometers]

\* ca_dict = si_dict.copy() with windSpeed and windGust replaced
ca_dict ==
    [si_dict EXCEPT !.windSpeed = P_Kilometers_per_hour,
                    !.windGust = P_Kilometers_per_hour]

\* Mutant of uk2_dict: the wind entries are not replaced.
uk2_dict_metric_wind ==
    [si_dict EXCEPT !.nearestStormDistance = P_Miles,
                    !.visibility = P_Miles]

\* uk2_dict = si_dict.copy() with four entries replaced
uk2_dict ==
    [si_dict EXCEPT !.nearestStormDistance = P_Miles,
                    !.visibility = P_Miles,
                    !.windSpeed = P_Miles_per_hour,
                    !.windGust = P_Miles_per_hour]

\* us_dict of units_decoder
us_dict ==
    [nearestStormDistance |-> P_Miles,
     precipIntensity |-> P_Inches_per_hour,
     precipIntensityMax |-> P_Inches_per_hour,
     precipAccumulation |-> P_Inches,
     temperature |-> P_Degrees_Fahrenheit,
     temperatureMin |-> P_Degrees_Fahrenheit,
     temperatureMax |-> P_Degrees_Fahrenheit,
     apparentTemperature |-> P_Degrees_Fahrenheit,
     dewPoint |-> P_Degrees_Fahrenheit,
     windSpeed |-> P_Miles_per_hour,
     windGust |-> P_Miles_per_hour,
     pressure |-> P_Millibars,
     visibility |-> P_Miles]

\* config["units"]
UnitCodes == {"ca", "uk2", "us", "si"}

\* switcher.get(units, "Invalid unit name")
units_decoder(units) ==
    CASE units = "ca" -> ca_dict
      [] units = "uk2" -> uk2_dict
      [] units = "us" -> us_dict
      [] units = "si" -> si_dict
      [] OTHER -> <<"I", "n", "v", "a", "l", "i", "d", " ", "u", "n", "i", "t", " ", "n", "a", "m", "e">>

UpperCase ==
    <<"A", "B", "C", "D", "E", "F", "G", "H", "I", "J", "K", "L", "M", "N", "O", "P", "Q", "R", "S", "T", "U", "V", "W", "X", "Y", "Z">>

LowerCase ==
    <<"a", "b", "c", "d", "e", "f", "g", "h", "i", "j", "k", "l", "m", "n", "o", "p", "q", "r", "s", "t", "u", "v", "w", "x", "y", "z">>

\* The place of c in the sequence s, 0 when it is not there.
IndexIn(s, c) ==
    IF \E i \in 1..Len(s) : s[i] = c
    THEN CHOOSE i \in 1..Len(s) : s[i] = c
    ELSE 0

\* str.lower() on one character
lower(c) == IF IndexIn(UpperCase, c) > 0 THEN LowerCase[IndexIn(UpperCase, c)] ELSE c

\* str.upper() on one character
upper(c) == IF IndexIn(LowerCase, c) > 0 THEN UpperCase[IndexIn(LowerCase, c)] ELSE c

\* str.split(' '): the pieces between single blanks, empty ones kept.
RECURSIVE split_on_blank(_, _)
split_on_blank(s, piece) ==
    IF s = <<>> THEN <<piece>>
    ELSE IF Head(s) = " " THEN <<piece>> \o split_on_blank(Tail(s), <<>>)
    ELSE split_on_blank(Tail(s), Append(piece, Head(s)))

\* str.split(): the words between runs of blanks, no empty ones.
split(s) == SelectSeq(split_on_blank(s, <<>>), LAMBDA w : w # <<>>)

\* ''.join(item[0].lower() for item in phrase.split())
get_abbreviation(phrase) ==
    LET words == split(phrase)
    IN  [i \in 1..Len(words) |-> lower(words[i][1])]

\* self.get_abbreviation(self.units_decoder(unit)['windSpeed'])
get_windspeed_abbreviation(unit) == get_abbreviation(units_decoder(unit).windSpeed)

\* self.units_decoder(unit)['temperature'].split(' ')[-1][0].upper()
get_temperature_letter(unit) ==
    LET pieces == split_on_blank(units_decoder(unit).temperature, <<>>)
    IN  <<upper(pieces[Len(pieces)][1])>>

\* A call of get_windspeed_abbreviation.
CallWindspeedAbbreviation ==
    /\ OnNewInstance
    /\ \E u \in UnitCodes :
           shown' = [op |-> "get_windspeed_abbreviation", unit |-> u,
                     out |-> get_windspeed_abbreviation(u)]

\* A call of get_temperature_letter.
CallTemperatureLetter ==
    /\ OnNewInstance
    /\ \E u \in UnitCodes :
           shown' = [op |-> "get_temperature_letter", unit |-> u,
                     out |-> get_temperature_letter(u)]

\* Python's round(n / m) for n >= 0, m > 0: halves go to the even neighbour.
RoundHalfEven(n, m) ==
    LET q == n \div m
        r == n % m
    IN  IF 2 * r < m THEN q
        ELSE IF 2 * r > m THEN q + 1
        ELSE IF q % 2 = 0 THEN q ELSE q + 1

DecimalDigits == <<"0", "1", "2", "3", "4", "5", "6", "7", "8", "9">>

\* str(n) for an int n >= 0
RECURSIVE str(_)
str(n) ==
    IF n < 10 THEN <<DecimalDigits[n + 1]>>
    ELSE Append(str(n \div 10), DecimalDigits[(n % 10) + 1])

\* The current conditions of a forecast as the wind line reads them; the
\* wind speed is counted in halves.
Conditions(has, bearing, speed) ==
    [has |-> has, windBearing |-> bearing, windSpeed |-> speed]

\* An attribute the forecast lacks is written with the value 0.
ConditionsFeed ==
    {Conditions({"windBearing", "windSpeed"}, b, v) :
        b \in Bearings, v \in 0..MaxWindSpeed}
    \cup {Conditions({"windBearing"}, b, 0) : b \in Bearings}
    \cup {Conditions({"windSpeed"}, 0, v) : v \in 0..MaxWindSpeed}
    \cup {Conditions({}, 0, 0)}

\* Mutant of WindDirection: no except clause around the lookup.
WindDirectionUnguarded(w) ==
    IF HasAttr(w, "windBearing")
    THEN [exc |-> "none", text |-> deg_to_compass(w.windBearing) \o <<" ", "@", " ">>]
    ELSE [exc |-> "AttributeError", text |-> <<>>]

\* try: wind_direction = self.deg_to_compass(self.weather.windBearing) + ' @ '
\* except AttributeError: wind_direction = ''
WindDirection(w) ==
    IF HasAttr(w, "windBearing")
    THEN [exc |-> "none", text |-> deg_to_compass(w.windBearing) \o <<" ", "@", " ">>]
    ELSE [exc |-> "none", text |-> <<>>]

\* wind_txt = wind_direction + str(int(round(self.weather.windSpeed)))
\*            + ' ' + self.get_windspeed_abbreviation(self.config["units"])
WindLine(w, units) ==
    LET wd == WindDirection(w) IN
    IF wd.exc # "none"
    THEN [exc |-> wd.exc, wind_direction |-> <<>>, wind_txt |-> <<>>]
    ELSE IF ~HasAttr(w, "windSpeed")
    THEN [exc |-> "AttributeError", wind_direction |-> wd.text, wind_txt |-> <<>>]
    ELSE [exc |-> "none", wind_direction |-> wd.text,
          wind_txt |-> wd.text \o str(RoundHalfEven(w.windSpeed, 2)) \o <<" ">>
                          \o get_windspeed_abbreviation(units)]

\* The wind line of disp_weather.
disp_weather ==
    /\ OnNewInstance
    /\ \E w \in ConditionsFeed, u \in UnitCodes :
           shown' = [op |-> "disp_weather", weather |-> w, units |-> u,
                     line |-> WindLine(w, u)]

\* The wind line of disp_hourly.
disp_hourly ==
    /\ OnNewInstance
    /\ \E w \in ConditionsFeed, u \in UnitCodes :
           shown' = [op |-> "disp_hourly", weather |-> w, units |-> u,
                     line |-> WindLine(w, u)]

\* ------------------------------------------------------------ the machine
\* __init__: last_update_check = 0, for every configured update_freq.
Constructed ==
    /\ update_freq \in 1..MaxFreq
    /\ shown = NothingShown
    /\ last_update_check = 0
    /\ attrs = NewSelf.attrs
    /\ weather = NewSelf.weather
    /\ sunrise = NewSelf.sunrise
    /\ sunrise_string = NewSelf.sunrise_string
    /\ sunset = NewSelf.sunset
    /\ sunset_string = NewSelf.sunset_string
    /\ take_umbrella = NewSelf.take_umbrella
    /\ result = "none"
    /\ outcome = "none"
    /\ callTime = 0
    /\ evalTime = 0
    /\ scanned = 0
    /\ succeeded = FALSE

\* time.time() counts from 1970, so the clock of a system whose clock is set
\* is past every configured update_freq.
Init ==
    /\ now \in (MaxFreq + 1)..DayLen
    /\ Constructed

\* The clock at construction is any value, that of a system whose clock has
\* not been set since it started at 0 included.
InitAnyClock ==
    /\ now \in 0..DayLen
    /\ Constructed

\* A new instance whose display helpers are called with every argument.
InitDisplay ==
    /\ Init
    /\ now = DayLen
    /\ update_freq = MaxFreq

\* The process is running: no exception has left get_forecast.
Running == result \in {"none", "True", "False"}

\* The clock advances between two calls.
Tick ==
    /\ Running
    /\ now < MaxTime
    /\ now' = now + 1
    /\ UNCHANGED <<update_freq, last_update_check, attrs, weather, sunrise,
                   sunrise_string, sunset, sunset_string, take_umbrella, result,
                   outcome, callTime, evalTime, scanned, succeeded, shown>>

\* The record of a call: when it began.
Called == callTime' = now

\* get_forecast when the condition of line 240 is false: return True.
CacheHit ==
    /\ Running
    /\ ~FetchDue(now, last_update_check, update_freq)
    /\ Called
    /\ result' = "True"
    /\ outcome' = "hit"
    /\ scanned' = 0
    /\ UNCHANGED <<now, update_freq, last_update_check, attrs, weather, sunrise,
                   sunrise_string, sunset, sunset_string, take_umbrella,
                   evalTime, succeeded, shown>>

\* get_forecast when forecast() raises a RequestException after lat ticks.
FetchUnreachable ==
    /\ Running
    /\ FetchDue(now, last_update_check, update_freq)
    /\ \E lat \in 0..MaxLatency :
          /\ now + lat <= MaxTime
          /\ now' = now + lat
    /\ Called
    /\ last_update_check' = StampAttempt(now, last_update_check)
    /\ result' = Returned("RequestException")
    /\ outcome' = "RequestException"
    /\ scanned' = 0
    /\ UNCHANGED <<update_freq, attrs, weather, sunrise, sunrise_string, sunset,
                   sunset_string, take_umbrella, evalTime, succeeded, shown>>

\* get_forecast when forecast() returns w after lat ticks.  The two reads of
\* time.time() at lines 240 and 241 fall in the same tick (now); the reads of
\* datetime.now() and datetime.today() at lines 253 and 277 come after the
\* round trip (now + lat).
FetchAnswered ==
    /\ Running
    /\ FetchDue(now, last_update_check, update_freq)
    /\ \E lat \in 0..MaxLatency, w \in Feed :
          /\ now + lat <= MaxTime
          /\ now' = now + lat
          /\ \E r \in {TryBlock(Self, w, now + lat)} :
                 /\ attrs' = r.self.attrs
                 /\ weather' = r.self.weather
                 /\ sunrise' = r.self.sunrise
                 /\ sunrise_string' = r.self.sunrise_string
                 /\ sunset' = r.self.sunset
                 /\ sunset_string' = r.self.sunset_string
                 /\ take_umbrella' = r.self.take_umbrella
                 /\ result' = Returned(r.exc)
                 /\ outcome' = IF r.exc = "none" THEN "ok" ELSE r.exc
                 /\ scanned' = r.scanned
                 /\ succeeded' = (succeeded \/ r.exc = "none")
          /\ evalTime' = now + lat
    /\ Called
    /\ last_update_check' = StampAttempt(now, last_update_check)
    /\ UNCHANGED <<update_freq, shown>>

get_forecast == CacheHit \/ FetchUnreachable \/ FetchAnswered

Next == Tick \/ CacheHit \/ FetchUnreachable \/ FetchAnswered

Spec == Init /\ [][Next]_vars

AnyClockSpec == InitAnyClock /\ [][Next]_vars

\* The render loop calls get_forecast before each render for as long as the
\* process runs, and the clock keeps advancing.
LiveSpec == Init /\ [][Next]_vars /\ WF_vars(Tick) /\ WF_vars(get_forecast)

DisplayNext ==
    \/ CallDegToCompass
    \/ CallWindspeedAbbreviation
    \/ CallTemperatureLetter
    \/ disp_weather
    \/ disp_hourly

DisplaySpec == InitDisplay /\ [][DisplayNext]_vars

\* ----------------------------------------------------------------- claims
DerivedFacts == {"sunrise", "sunrise_string", "sunset", "sunset_string", "take_umbrella"}

\* The last call of get_forecast called forecast().
Fetched == outcome \in {"ok", "RequestException", "AttributeError", "IndexError"}

\* C1: when a call of get_forecast that fetched is followed by a call made less
\* than update_freq after it, the second call is a cache hit: it returns True
\* and calls forecast() not at all, so the two calls make one network access.
C1_SecondCallIsCacheHit ==
    [][(Fetched /\ now - callTime < update_freq /\ get_forecast)
          => (outcome' = "hit" /\ result' = "True")]_vars

\* A cache hit made within update_freq of the fetch before it.
C1_Witness ==
    /\ outcome = "hit"
    /\ result = "True"
    /\ last_update_check > 0
    /\ callTime > last_update_check
    /\ callTime - last_update_check < update_freq

\* C2: a call whose forecast() raises a RequestException after an earlier
\* successful fetch leaves self.weather and every derived fact as they were,
\* returns False, and sets last_update_check to the time of the call.
C2_UnreachableKeepsSnapshot ==
    [][(succeeded /\ outcome' = "RequestException" /\ get_forecast)
          => (Self' = Self /\ result' = "False" /\ last_update_check' = now)]_vars

\* A transport failure after a success, made later than the first fetch.
C2_Witness ==
    /\ outcome = "RequestException"
    /\ succeeded
    /\ DerivedFacts \subseteq attrs
    /\ result = "False"
    /\ last_update_check = callTime
    /\ callTime > evalTime

\* C3: after a successful fetch, a call whose payload lacks an attribute (the
\* AttributeError path) leaves self.weather and every derived fact as they
\* were before the call.
C3_MalformedKeepsSnapshot ==
    [][(succeeded /\ outcome' = "AttributeError" /\ get_forecast)
          => Self' = Self]_vars

\* C4: between calls, the derived facts are the ones the try block computes
\* from the forecast in self.weather.
C4_FactsMatchSnapshot ==
    "weather" \in attrs =>
        \A r \in {TryBlock(NewSelf, weather, evalTime)} :
            r.exc = "none" /\ r.self = Self

\* C5: as long as no fetch has succeeded, no call of get_forecast returns True
\* and no derived fact is set.
C5_UnavailableBeforeFirstSuccess ==
    ~succeeded => (result # "True" /\ attrs \cap DerivedFacts = {})

\* C6: a call of get_forecast skips the fetch exactly when
\* now - last_update_check < update_freq and self.weather exists.
C6_FetchUnlessCacheHit ==
    [][get_forecast =>
          ((outcome' = "hit") <=>
              (now - last_update_check < update_freq /\ "weather" \in attrs))]_vars

\* C7: no exception leaves get_forecast: every call returns True or False.
C7_NoErrorEscapes == result \in {"none", "True", "False"}

\* C8: after a successful fetch evaluated at evalTime, sunrise and sunset are
\* those of daily entry 0 with suffixes "today" and "tonight" when evalTime is
\* before daily entry 0's sunset, and those of daily entry 1 with suffix
\* "tomorrow" for both when evalTime is at or after that sunset.
C8_SunriseSunsetSelection ==
    outcome = "ok" =>
        LET d == weather.daily IN
        IF evalTime < d[1].sunsetTime
        THEN /\ sunrise = d[1].sunriseTime
             /\ sunset = d[1].sunsetTime
             /\ sunrise_string.suffix = "today"
             /\ sunset_string.suffix = "tonight"
        ELSE /\ Len(d) >= 2
             /\ sunrise = d[2].sunriseTime
             /\ sunset = d[2].sunsetTime
             /\ sunrise_string.suffix = "tomorrow"
             /\ sunset_string.suffix = "tomorrow"

\* A successful fetch evaluated exactly at daily entry 0's sunset.
C8_Witness ==
    /\ outcome = "ok"
    /\ evalTime = weather.daily[1].sunsetTime
    /\ sunrise = weather.daily[2].sunriseTime
    /\ sunset_string.suffix = "tomorrow"

\* C9: after a successful fetch whose current icon or daily entry 0's icon is
\* "rain", take_umbrella is true and no hourly entry was examined.
C9_RainIconMeansUmbrella ==
    (outcome = "ok" /\ (weather.icon = "rain" \/ weather.daily[1].icon = "rain"))
        => (take_umbrella /\ scanned = 0)

\* A rain icon over an hourly sequence whose probabilities are all 0.
C9_Witness ==
    /\ outcome = "ok"
    /\ weather.daily[1].icon = "rain"
    /\ weather.icon # "rain"
    /\ HasAttr(weather, "hourly")
    /\ Len(weather.hourly) = 2
    /\ \A i \in 1..Len(weather.hourly) : weather.hourly[i].precipProbability = 0
    /\ take_umbrella

\* C10: after a successful fetch without a rain icon, take_umbrella is true
\* exactly when some hourly entry is dated today, lies in
\* [sunrise, sunset] of daily entry 0 with both ends included, and has a
\* precipitation probability of at least 0.25.
C10_HourlyScanDecidesUmbrella ==
    (outcome = "ok" /\ weather.icon # "rain" /\ weather.daily[1].icon # "rain")
        => (take_umbrella <=>
              \E i \in 1..Len(weather.hourly) :
                 LET h == weather.hourly[i] IN
                 /\ h.has = {"time", "precipProbability"}
                 /\ h.time \div DayLen = evalTime \div DayLen
                 /\ weather.daily[1].sunriseTime <= h.time
                 /\ h.time <= weather.daily[1].sunsetTime
                 /\ h.precipProbability >= 25)

\* An entry just under the threshold is passed over and the entry after it,
\* exactly at the threshold and at sunset, sets the flag.
C10_Witness ==
    /\ outcome = "ok"
    /\ weather.icon # "rain" /\ weather.daily[1].icon # "rain"
    /\ Len(weather.hourly) = 2
    /\ weather.hourly[1].precipProbability = 24
    /\ weather.hourly[2].precipProbability = 25
    /\ weather.hourly[2].time = weather.daily[1].sunsetTime
    /\ scanned = 2
    /\ take_umbrella

\* The 16 points in their standard order.
CompassPoints ==
    << <<"N">>, <<"N", "N", "E">>, <<"N", "E">>, <<"E", "N", "E">>,
       <<"E">>, <<"E", "S", "E">>, <<"S", "E">>, <<"S", "S", "E">>,
       <<"S">>, <<"S", "S", "W">>, <<"S", "W">>, <<"W", "S", "W">>,
       <<"W">>, <<"W", "N", "W">>, <<"N", "W">>, <<"N", "N", "W">> >>

\* C11 as claimed: deg_to_compass(d) is the point at index round(d / 22.5)
\* mod 16, halfway bearings included, with round() as Python rounds.
C11_CompassAsRound ==
    shown.op = "deg_to_compass" =>
        shown.out = CompassPoints[(RoundHalfEven(shown.degrees, 2 * HalfPoint) % 16) + 1]

\* C11 as amended: deg_to_compass(d) is the point i whose sector
\* [22.5 i - 11.25, 22.5 i + 11.25) holds d, the sector of N wrapping round:
\* a halfway bearing goes to the next point clockwise.  0 gives N, 22.5 gives
\* NNE, 180 gives S, 348.75 gives N and 11.25 gives NNE.
C11_CompassHalfUp ==
    shown.op = "deg_to_compass" =>
        /\ \E i \in 0..16 :
              /\ (2 * i - 1) * HalfPoint <= shown.degrees
              /\ shown.degrees < (2 * i + 1) * HalfPoint
              /\ shown.out = CompassPoints[(i % 16) + 1]
        /\ shown.degrees = 0 => shown.out = <<"N">>
        /\ shown.degrees = 2 * HalfPoint => shown.out = <<"N", "N", "E">>
        /\ shown.degrees = 16 * HalfPoint => shown.out = <<"S">>
        /\ shown.degrees = 31 * HalfPoint => shown.out = <<"N">>
        /\ shown.degrees = HalfPoint => shown.out = <<"N", "N", "E">>

\* deg_to_compass(11.25): halfway between N and NNE.
C11_Witness ==
    /\ shown.op = "deg_to_compass"
    /\ shown.degrees = HalfPoint
    /\ shown.out = <<"N", "N", "E">>

\* C12: for each of si, us, ca and uk2, get_windspeed_abbreviation gives the
\* lowercased first letters of the words of the windSpeed unit name (mph for
\* us and uk2, kph for ca, mps for si) and get_temperature_letter gives the
\* uppercase first letter of the last word of the temperature unit name (F
\* for us, C for si, ca and uk2).
C12_UnitAbbreviations ==
    /\ shown.op = "get_windspeed_abbreviation" =>
          shown.out = CASE shown.unit = "us" -> <<"m", "p", "h">>
                        [] shown.unit = "uk2" -> <<"m", "p", "h">>
                        [] shown.unit = "ca" -> <<"k", "p", "h">>
                        [] shown.unit = "si" -> <<"m", "p", "s">>
    /\ shown.op = "get_temperature_letter" =>
          shown.out = IF shown.unit = "us" THEN <<"F">> ELSE <<"C">>

\* get_windspeed_abbreviation('uk2'), whose table replaces the wind entries
\* of the si table.
C12_Witness ==
    /\ shown.op = "get_windspeed_abbreviation"
    /\ shown.unit = "uk2"
    /\ shown.out = <<"m", "p", "h">>

\* C13: the first call of get_forecast on a new instance calls forecast(),
\* for every update_freq and every value of the clock.
C13_FirstCallFetches ==
    [][(outcome = "none" /\ get_forecast) => Fetched']_vars

\* The point whose sector [22.5 i - 11.25, 22.5 i + 11.25) holds bearing d.
SectorPoint(d) ==
    LET i == CHOOSE j \in 0..16 :
                 (2 * j - 1) * HalfPoint <= d /\ d < (2 * j + 1) * HalfPoint
    IN  CompassPoints[(i % 16) + 1]

\* The wind speed v, counted in halves, rounded to a whole number as text.
RoundedSpeedText(v) ==
    LET below == v \div 2
        n == IF v % 2 = 0 THEN below
             ELSE IF below % 2 = 0 THEN below ELSE below + 1
    IN  <<DecimalDigits[n + 1]>>

\* C14: in disp_weather and disp_hourly, for a snapshot that carries a wind
\* speed: without a wind bearing the wind line is built without an error, the
\* direction label is empty and the text is the rounded wind speed, a blank
\* and the unit abbreviation; with a bearing the label is the compass point
\* followed by " @ ".
C14_WindLineWithoutBearing ==
    (shown.op \in {"disp_weather", "disp_hourly"} /\ HasAttr(shown.weather, "windSpeed"))
        => LET abbr == CASE shown.units = "us" -> <<"m", "p", "h">>
                         [] shown.units = "uk2" -> <<"m", "p", "h">>
                         [] shown.units = "ca" -> <<"k", "p", "h">>
                         [] shown.units = "si" -> <<"m", "p", "s">>
               speed == RoundedSpeedText(shown.weather.windSpeed)
               label == IF HasAttr(shown.weather, "windBearing")
                        THEN SectorPoint(shown.weather.windBearing) \o <<" ", "@", " ">>
                        ELSE <<>>
           IN  /\ shown.line.exc = "none"
               /\ shown.line.wind_direction = label
               /\ shown.line.wind_txt = label \o speed \o <<" ">> \o abbr

\* disp_hourly on a snapshot without a wind bearing and a wind speed of 2.5.
C14_Witness ==
    /\ shown.op = "disp_hourly"
    /\ shown.units = "ca"
    /\ ~HasAttr(shown.weather, "windBearing")
    /\ HasAttr(shown.weather, "windSpeed")
    /\ shown.weather.windSpeed = 5
    /\ shown.line.exc = "none"
    /\ shown.line.wind_direction = <<>>
    /\ shown.line.wind_txt = <<"2", " ", "k", "p", "h">>

\* C15: a step of get_forecast that calls forecast() sets last_update_check
\* to the clock value read at the start of the call, whatever the outcome of
\* the attempt; last_update_check changes only in a call that fetches, to the
\* time of that call, which is at least update_freq after the attempt before
\* it; so last_update_check never decreases and is the time of the most
\* recent attempt.
C15_AttemptsStampedAndSpaced ==
    [][/\ last_update_check' >= last_update_check
       /\ Fetched' => last_update_check' = callTime'
       /\ last_update_check' = now \/ ~(FetchUnreachable \/ FetchAnswered)
       /\ last_update_check' # last_update_check
             => /\ Fetched'
                /\ callTime' = now
                /\ last_update_check' = now
                /\ last_update_check # 0
                       => last_update_check' - last_update_check >= update_freq]_vars

\* An attempt that found the provider unreachable, stamped at its start and
\* made after an earlier attempt whose payload was malformed.
C15_Witness ==
    /\ outcome = "RequestException"
    /\ "weather" \in attrs
    /\ ~succeeded
    /\ last_update_check = callTime
    /\ last_update_check > update_freq + MaxFreq

\* The clock values after which the next attempt falls before MaxTime.
AttemptTimes == 1..(MaxTime - MaxFreq - 1)

C16_AnotherAttemptUnlessRaised ==
    \A t \in AttemptTimes :
        (last_update_check = t) ~> (last_update_check > t \/ ~Running)

====
